---------------------------- MODULE Spec2Model ----------------------------
(***************************************************************************)
(* IceSickle: ephemeral-key attestation core.                              *)
(*                                                                         *)
(* State machine of cooldown.rs (check / record_attestation / gate),       *)
(* attestation.rs (Attestation::create, the counter, the ephemeral key)    *)
(* and the event loop of main.rs.  Every clock read and every atomic       *)
(* load/store/fetch_add is a step of its own, so that the hardware timer   *)
(* may advance, and another caller may run, between any two of them.       *)
(***************************************************************************)
EXTENDS Integers, Sequences, FiniteSets, TLC

(***************************************************************************)
(* Bounds of the model.                                                    *)
(***************************************************************************)
\* Event loop: the hardware timer is followed up to this many milliseconds
\* since boot, and the button triggers at most this many times.
MaxClock == 3000
MaxTriggers == 4
\* One caller of check / record_attestation / gate.
CooldownClock == 2000
MaxCooldownCalls == 4
\* One caller of create().
CreateClock == 1000
MaxCreates == 3
\* Concurrent callers of check / record_attestation / gate.
NumCallers == 2
ConcClock == 1000
MaxConcCalls == 3
\* Seeds the entropy source can deliver are 0..MaxSeed; 0 is the all-zero sample.
MaxSeed == 1
\* The u32 counter wraps at 2^32; the model keeps the wrapping arithmetic of
\* fetch_add and scales the modulus down to this value.
CounterModulus == 3

(***************************************************************************)
(* Program constants.                                                      *)
(***************************************************************************)
COOLDOWN_MS == 1000
BUTTON_PIN == 0
PAYLOAD_VERSION == 1

\* Amounts by which the timer advances between two steps of the program.
TickSteps == {500, 999}

Procs == 1..NumCallers
Seeds == 0..MaxSeed
ZeroSeed == 0

VARIABLES
    now,                 \* esp_timer_get_time() / 1000: milliseconds since boot
    LAST_ATTESTATION_MS, \* cooldown.rs static
    COUNTER,             \* attestation.rs static
    run,                 \* this run: its threads, clock horizon, call budget, events
    pc, op,              \* where each caller is, and which top-level call it runs
    chk,                 \* check(): locals now, last and the result
    rec_now,             \* record_attestation(): local now
    cr,                  \* create(): locals
    seedBuf,             \* the 32-byte seed buffer of EphemeralSigningKey::new
    keyMem,              \* the memory of the ephemeral SigningKey
    ret,                 \* the value the caller's last call returned
    trig,                \* event loop: what the current trigger has done so far
    emitted,             \* attestations handed to output_attestation, in order
    okLog,               \* history: gate() calls that returned Ok
    createLog,           \* history: create() calls, in the order of their counter draw
    rngLog,              \* history: seeds delivered by the entropy source
    signLog,             \* history: (entropy draw, message) of every sign()
    calls,               \* top-level calls / triggers started
    boot,                \* main(): the RNG test sample and how initialization went
    pin,                 \* the raw level of the button pin: TRUE = low = pressed
    button,              \* button.rs Button: last_state, last_change_ms
    bhist,               \* history of the pin and of poll_pressed()
    hex                  \* hex_encode(): bytes, the string s, the loop position

\* The boot record, the button and hex_encode: untouched by the attestation core.
hw == <<boot, pin, button, bhist, hex>>

vars == <<now, LAST_ATTESTATION_MS, COUNTER, run, pc, op, chk, rec_now, cr,
          seedBuf, keyMem, ret, trig, emitted, okLog, createLog, rngLog, signLog,
          calls, boot, pin, button, bhist, hex>>

\* What the button's code leaves alone in the attestation core.
attData == <<LAST_ATTESTATION_MS, COUNTER, run, op, chk, rec_now, cr, seedBuf,
             keyMem, emitted, okLog, createLog, rngLog, signLog>>

\* The attestation core's variables, but for the program counters.
coreData == <<now, LAST_ATTESTATION_MS, COUNTER, run, op, chk, rec_now, cr, seedBuf,
              keyMem, ret, trig, emitted, okLog, createLog, rngLog, signLog,
              calls>>


(***************************************************************************)
(* Pure functions.                                                         *)
(***************************************************************************)
\* u64::saturating_sub
SaturatingSub(a, b) == IF a >= b THEN a - b ELSE 0

Ready == [kind |-> "Ready", remaining_ms |-> 0]
Wait(r) == [kind |-> "Wait", remaining_ms |-> r]

\* Mutant of CheckResult: a plain (wrapping-free) subtraction, no saturation.
CheckResultPlainSub(n, last) ==
    IF n - last >= COOLDOWN_MS THEN Ready ELSE Wait(COOLDOWN_MS - (n - last))

\* check(), after its two reads: now = n, last = LAST_ATTESTATION_MS
CheckResult(n, last) ==
    LET elapsed == SaturatingSub(n, last)
    IN  IF elapsed >= COOLDOWN_MS THEN Ready ELSE Wait(COOLDOWN_MS - elapsed)

\* Mutant of FetchAdd: the add saturates at the largest value instead of wrapping.
FetchAddSaturating(c) == IF c + 1 < CounterModulus THEN c + 1 ELSE c

\* AtomicU32::fetch_add(1): the stored value after the add (wrapping)
FetchAdd(c) == (c + 1) % CounterModulus

\* AttestationEvent
ButtonPress(g) == [tag |-> "ButtonPress", gpio |-> g]
Unknown == [tag |-> "Unknown", gpio |-> 0]
NoEvent == [tag |-> "none", gpio |-> 0]
Events == {ButtonPress(BUTTON_PIN), Unknown}

\* postcard's varint (LEB128, low group first) of an unsigned integer
RECURSIVE Varint(_)
Varint(n) ==
    IF n < 128 THEN <<n>> ELSE <<128 + (n % 128)>> \o Varint(n \div 128)

\* serde's derived Serialize for AttestationEvent under postcard: the variant
\* index, then the variant's fields
EncodeEvent(e) ==
    IF e.tag = "ButtonPress" THEN Varint(0) \o <<e.gpio>> ELSE Varint(1)

\* AttestationPayload { version, event, timestamp_ms, counter }
BuildPayload(e, ts, c) ==
    [version |-> PAYLOAD_VERSION, event |-> e, timestamp_ms |-> ts, counter |-> c]
NoPayload == [version |-> 0, event |-> NoEvent, timestamp_ms |-> 0, counter |-> 0]

\* postcard::to_allocvec(&payload) when it succeeds: the fields in declaration
\* order, u8 as one byte, u64 and u32 as varints
Encode(pl) ==
    <<pl.version>> \o EncodeEvent(pl.event) \o Varint(pl.timestamp_ms)
        \o Varint(pl.counter)

\* The memory of a SigningKey: live secret bytes, or wiped.
NoKey == [live |-> FALSE, seed |-> ZeroSeed]

\* Mutant of FromBytes: a key that does not depend on the seed drawn.
FromBytesFixed(s) == [live |-> TRUE, seed |-> 1]

\* SigningKey::from_bytes(&seed): the key holds its own copy of the seed
FromBytes(s) == [live |-> TRUE, seed |-> s]

\* Mutant of Zeroize: the wipe is missing.
ZeroizeSkipped(s) == s

\* seed.zeroize()
Zeroize(s) == ZeroSeed

\* drop(signing_key): ZeroizeOnDrop of the wrapper and of SigningKey
DropKey(k) == NoKey

\* Ed25519, symbolically: the verifying key names the secret it belongs to, a
\* signature names its signer and its message.
VerifyingKeyOf(k) == [pk |-> k.seed]
NoPublicKey == [pk |-> -1]

Sign(k, msg) == [signer |-> k.seed, msg |-> msg]
NoSignature == [signer |-> -1, msg |-> <<>>]
Verify(pk, msg, sig) == sig.signer = pk.pk /\ sig.msg = msg

NoAtt == [event |-> NoEvent, timestamp_ms |-> 0, public_key |-> NoPublicKey,
          signature |-> NoSignature]

\* Mutant of AssembleAttestation: the timestamp is read from the clock again.
AssembleAttestationReread(c) ==
    [event |-> c.event, timestamp_ms |-> now, public_key |-> c.public_key,
     signature |-> c.signature]

\* Ok(Self { event, timestamp_ms, public_key, signature })
AssembleAttestation(c) ==
    [event |-> c.event, timestamp_ms |-> c.timestamp_ms,
     public_key |-> c.public_key, signature |-> c.signature]

NoRet == [fn |-> "none", ok |-> FALSE, kind |-> "none", remaining_ms |-> 0,
          att |-> NoAtt]
RetCheck(res) == [NoRet EXCEPT !.fn = "check", !.ok = TRUE, !.kind = res.kind,
                                !.remaining_ms = res.remaining_ms]
RetRecord == [NoRet EXCEPT !.fn = "record", !.ok = TRUE]
RetGateOk == [NoRet EXCEPT !.fn = "gate", !.ok = TRUE]
RetGateErr(r) == [NoRet EXCEPT !.fn = "gate", !.kind = "Wait", !.remaining_ms = r]
RetCreateOk(a) == [NoRet EXCEPT !.fn = "create", !.ok = TRUE, !.att = a]
RetCreateErr == [NoRet EXCEPT !.fn = "create"]

NoCr == [event |-> NoEvent, timestamp_ms |-> 0, counter |-> 0, idx |-> 0,
         payload |-> NoPayload, payload_bytes |-> <<>>, draw |-> 0,
         public_key |-> NoPublicKey, signature |-> NoSignature]
NoTrig == [last0 |-> 0, ctr0 |-> 0, gate |-> "none", create |-> "none",
           outputs |-> 0]
NoChk == [now |-> 0, last |-> 0, res |-> Ready]

\* entropy.rs: the 4-byte test array of HardwareRng::new, before it is filled
TestZero == <<0, 0, 0, 0>>
\* The samples esp_fill_random can put there (each byte 0 or 1).
Samples == [1..4 -> {0, 1}]

\* Mutant of RngSanityOk: only the first byte is looked at.
RngSanityFirstByte(test) == test[1] # 0

\* HardwareRng::new: the sanity check passes unless test == [0, 0, 0, 0]
RngSanityOk(test) == test # TestZero

NoBoot == [test |-> TestZero, rng |-> "none"]
\* Button::new: last_state: false, last_change_ms: 0
NewButton == [last_state |-> FALSE, last_change_ms |-> 0]
\* History of the pin and of poll_pressed(): the number of times the raw
\* level went low, since when it is low, the number of times last_state was
\* set back to false, and one entry per poll_pressed() that returned true.
NoHist == [press |-> 0, low_since |-> 0, resets |-> 0, trues |-> <<>>]
NoHex == [bytes |-> <<>>, s |-> <<>>, i |-> 0, done |-> FALSE]

(***************************************************************************)
(* Initial states.  Boot leaves both statics at 0; the three specifications*)
(* differ in who calls the core.                                           *)
(***************************************************************************)
InitAt(t0, cs, horizon, budget, startPc, startOp) ==
    /\ now = t0
    /\ LAST_ATTESTATION_MS = 0
    /\ COUNTER = 0
    /\ run = [callers |-> cs, horizon |-> horizon, budget |-> budget]
    /\ pc = [p \in Procs |-> IF p \in cs THEN startPc ELSE "off"]
    /\ op = [p \in Procs |-> IF p \in cs THEN startOp ELSE "none"]
    /\ chk = [p \in Procs |-> NoChk]
    /\ rec_now = [p \in Procs |-> 0]
    /\ cr = [p \in Procs |-> NoCr]
    /\ seedBuf = [p \in Procs |-> ZeroSeed]
    /\ keyMem = [p \in Procs |-> NoKey]
    /\ ret = [p \in Procs |-> NoRet]
    /\ trig = [p \in Procs |-> NoTrig]
    /\ emitted = <<>>
    /\ okLog = <<>>
    /\ createLog = <<>>
    /\ rngLog = <<>>
    /\ signLog = <<>>
    /\ calls = 0
    /\ boot = NoBoot
    /\ pin = FALSE
    /\ button = NewButton
    /\ bhist = NoHist

\* The timer counts from power-on.
InitCore(cs, horizon, budget, startPc, startOp) ==
    InitAt(0, cs, horizon, budget, startPc, startOp)

\* ... and hex_encode has not been called.
InitWith(cs, horizon, budget, startPc, startOp) ==
    /\ InitCore(cs, horizon, budget, startPc, startOp)
    /\ hex = NoHex

\* main.rs: one thread, in the event loop
Init == InitWith({1}, MaxClock, MaxTriggers, "poll", "main")
\* one thread calling check(), record_attestation() and gate() in any order
InitCooldown == InitWith({1}, CooldownClock, MaxCooldownCalls, "idle", "none")
\* one thread calling create() again and again
InitCreate == InitWith({1}, CreateClock, MaxCreates, "idle", "none")
\* the same, for as many calls as it takes the counter to come round
InitWrap == InitWith({1}, CreateClock, CounterModulus + 1, "idle", "none")
\* several threads calling check(), record_attestation() and gate()
InitConc == InitWith(Procs, ConcClock, MaxConcCalls, "idle", "none")

(***************************************************************************)
(* The hardware timer: non-decreasing, advancing between any two steps.    *)
(***************************************************************************)
Tick ==
    /\ \E d \in TickSteps : now + d <= run.horizon /\ now' = now + d
    /\ UNCHANGED <<hw, LAST_ATTESTATION_MS, COUNTER, run, pc, op, chk, rec_now, cr,
                   seedBuf, keyMem, ret, trig, emitted, okLog, createLog, rngLog,
                   signLog, calls>>

(***************************************************************************)
(* cooldown.rs                                                             *)
(***************************************************************************)
\* Mutant of GateErrNext: the Err arm goes on to generate the attestation.
GateErrNextCreate(p) == IF op[p] = "main" THEN "create_ts" ELSE "idle"

\* What the caller of gate() does with Err(remaining_ms).
GateErrNext(p) == IF op[p] = "main" THEN "wait_release" ELSE "idle"
\* What the caller of gate() does with Ok(()).
GateOkNext(p) == IF op[p] = "main" THEN "create_ts" ELSE "idle"

\* check(): let now = get_timestamp_ms()
CheckReadClock(p) ==
    /\ pc[p] = "check_now"
    /\ chk' = [chk EXCEPT ![p].now = now]
    /\ pc' = [pc EXCEPT ![p] = "check_load"]
    /\ UNCHANGED <<hw, now, LAST_ATTESTATION_MS, COUNTER, run, op, rec_now, cr,
                   seedBuf, keyMem, ret, trig, emitted, okLog, createLog, rngLog,
                   signLog, calls>>

\* check(): the load of LAST_ATTESTATION_MS and the result; inside gate(), the
\* match on that result (the Wait arm returns Err(remaining_ms))
CheckLoad(p) ==
    /\ pc[p] = "check_load"
    /\ LET res == CheckResult(chk[p].now, LAST_ATTESTATION_MS)
       IN  /\ chk' = [chk EXCEPT ![p].last = LAST_ATTESTATION_MS, ![p].res = res]
           /\ IF op[p] = "check"
              THEN /\ ret' = [ret EXCEPT ![p] = RetCheck(res)]
                   /\ pc' = [pc EXCEPT ![p] = "idle"]
                   /\ trig' = trig
              ELSE IF res.kind = "Ready"
              THEN /\ pc' = [pc EXCEPT ![p] = "record_now"]
                   /\ UNCHANGED <<ret, trig>>
              ELSE /\ ret' = [ret EXCEPT ![p] = RetGateErr(res.remaining_ms)]
                   /\ pc' = [pc EXCEPT ![p] = GateErrNext(p)]
                   /\ trig' = [trig EXCEPT ![p].gate = "Err"]
    /\ UNCHANGED <<hw, now, LAST_ATTESTATION_MS, COUNTER, run, op, rec_now, cr,
                   seedBuf, keyMem, emitted, okLog, createLog, rngLog, signLog,
                   calls>>

\* record_attestation(): let now = get_timestamp_ms()
RecordReadClock(p) ==
    /\ pc[p] = "record_now"
    /\ rec_now' = [rec_now EXCEPT ![p] = now]
    /\ pc' = [pc EXCEPT ![p] = "record_store"]
    /\ UNCHANGED <<hw, now, LAST_ATTESTATION_MS, COUNTER, run, op, chk, cr,
                   seedBuf, keyMem, ret, trig, emitted, okLog, createLog, rngLog,
                   signLog, calls>>

\* Mutant of StoreLast: the store happens only once the cooldown has elapsed.
StoreLastIfElapsed(p) ==
    LAST_ATTESTATION_MS' =
        IF CheckResult(rec_now[p], LAST_ATTESTATION_MS).kind = "Ready"
        THEN rec_now[p] ELSE LAST_ATTESTATION_MS

\* Mutant of StoreLast: the store is missing.
StoreLastSkipped(p) == UNCHANGED LAST_ATTESTATION_MS

\* LAST_ATTESTATION_MS.store(now, SeqCst)
StoreLast(p) == LAST_ATTESTATION_MS' = rec_now[p]

\* record_attestation(): the store; inside gate(), the Ok(()) that follows it
RecordStore(p) ==
    /\ pc[p] = "record_store"
    /\ StoreLast(p)
    /\ IF op[p] = "record"
       THEN /\ ret' = [ret EXCEPT ![p] = RetRecord]
            /\ pc' = [pc EXCEPT ![p] = "idle"]
            /\ UNCHANGED <<okLog, trig, cr>>
       ELSE /\ ret' = [ret EXCEPT ![p] = RetGateOk]
            /\ pc' = [pc EXCEPT ![p] = GateOkNext(p)]
            /\ okLog' = Append(okLog, [p |-> p, chk |-> chk[p].now,
                                       rec |-> rec_now[p]])
            /\ trig' = [trig EXCEPT ![p].gate = "Ok"]
            \* main.rs generate_attestation: ButtonPress { gpio: BUTTON_PIN as u8 }
            /\ cr' = IF op[p] = "main"
                     THEN [cr EXCEPT ![p] = [NoCr EXCEPT !.event = ButtonPress(BUTTON_PIN)]]
                     ELSE cr
    /\ UNCHANGED <<hw, now, COUNTER, run, op, chk, rec_now, seedBuf, keyMem,
                   emitted, createLog, rngLog, signLog, calls>>

(***************************************************************************)
(* attestation.rs: Attestation::create                                     *)
(***************************************************************************)
\* Mutant of CreateErrNext: the Err arm falls through to the output.
CreateErrNextOutput(p) == IF op[p] = "main" THEN "output" ELSE "idle"

\* What the caller of create() does with Err(e).
CreateErrNext(p) == IF op[p] = "main" THEN "wait_release" ELSE "idle"
\* What the caller of create() does with Ok(attestation).
CreateOkNext(p) == IF op[p] = "main" THEN "output" ELSE "idle"

\* let timestamp_ms = get_timestamp_ms()
CreateTimestamp(p) ==
    /\ pc[p] = "create_ts"
    /\ cr' = [cr EXCEPT ![p].timestamp_ms = now, ![p].idx = Len(createLog) + 1]
    /\ createLog' = Append(createLog,
            [p |-> p, event |-> cr[p].event, timestamp_ms |-> now, counter |-> -1,
             payload |-> NoPayload, draw |-> 0, status |-> "run", att |-> NoAtt])
    /\ pc' = [pc EXCEPT ![p] = "create_ctr"]
    /\ UNCHANGED <<hw, now, LAST_ATTESTATION_MS, COUNTER, run, op, chk, rec_now,
                   seedBuf, keyMem, ret, trig, emitted, okLog, rngLog, signLog,
                   calls>>

\* let counter = increment_counter(): COUNTER.fetch_add(1, SeqCst)
CreateCounter(p) ==
    /\ pc[p] = "create_ctr"
    /\ cr' = [cr EXCEPT ![p].counter = COUNTER]
    /\ COUNTER' = FetchAdd(COUNTER)
    /\ createLog' = [createLog EXCEPT ![cr[p].idx].counter = COUNTER]
    /\ pc' = [pc EXCEPT ![p] = "create_encode"]
    /\ UNCHANGED <<hw, now, LAST_ATTESTATION_MS, run, op, chk, rec_now, seedBuf,
                   keyMem, ret, trig, emitted, okLog, rngLog, signLog, calls>>

\* let payload = AttestationPayload {..}; postcard::to_allocvec(&payload)?
\* The serializer's Result is the environment's choice; on Err the ? returns.
CreateEncode(p) ==
    /\ pc[p] = "create_encode"
    /\ LET payload == BuildPayload(cr[p].event, cr[p].timestamp_ms, cr[p].counter)
       IN  \E encoded \in BOOLEAN :
             IF encoded
             THEN /\ cr' = [cr EXCEPT ![p].payload = payload,
                                      ![p].payload_bytes = Encode(payload)]
                  /\ createLog' = [createLog EXCEPT ![cr[p].idx].payload = payload]
                  /\ pc' = [pc EXCEPT ![p] = "create_key"]
                  /\ UNCHANGED <<ret, trig>>
             ELSE /\ cr' = [cr EXCEPT ![p].payload = payload]
                  /\ createLog' = [createLog EXCEPT ![cr[p].idx].payload = payload,
                                                    ![cr[p].idx].status = "err"]
                  /\ ret' = [ret EXCEPT ![p] = RetCreateErr]
                  /\ trig' = [trig EXCEPT ![p].create = "Err"]
                  /\ pc' = [pc EXCEPT ![p] = CreateErrNext(p)]
    /\ UNCHANGED <<hw, now, LAST_ATTESTATION_MS, COUNTER, run, op, chk, rec_now,
                   seedBuf, keyMem, emitted, okLog, rngLog, signLog, calls>>

\* EphemeralSigningKey::new: let mut seed = [0u8; 32]; rng.fill_bytes(&mut seed)
KeyNewFill(p) ==
    /\ pc[p] = "create_key"
    /\ \E s \in Seeds :
         /\ seedBuf' = [seedBuf EXCEPT ![p] = s]
         /\ rngLog' = Append(rngLog, s)
    /\ cr' = [cr EXCEPT ![p].draw = Len(rngLog) + 1]
    /\ createLog' = [createLog EXCEPT ![cr[p].idx].draw = Len(rngLog) + 1]
    /\ pc' = [pc EXCEPT ![p] = "create_derive"]
    /\ UNCHANGED <<hw, now, LAST_ATTESTATION_MS, COUNTER, run, op, chk, rec_now,
                   keyMem, ret, trig, emitted, okLog, signLog, calls>>

\* EphemeralSigningKey::new: SigningKey::from_bytes(&seed); seed.zeroize();
\* Self { inner }
KeyNewDerive(p) ==
    /\ pc[p] = "create_derive"
    /\ keyMem' = [keyMem EXCEPT ![p] = FromBytes(seedBuf[p])]
    /\ seedBuf' = [seedBuf EXCEPT ![p] = Zeroize(seedBuf[p])]
    /\ pc' = [pc EXCEPT ![p] = "create_sign"]
    /\ UNCHANGED <<hw, now, LAST_ATTESTATION_MS, COUNTER, run, op, chk, rec_now,
                   cr, ret, trig, emitted, okLog, createLog, rngLog, signLog,
                   calls>>

\* let public_key = signing_key.verifying_key().to_bytes();
\* let signature = signing_key.sign(&payload_bytes)
CreateSign(p) ==
    /\ pc[p] = "create_sign"
    /\ cr' = [cr EXCEPT ![p].public_key = VerifyingKeyOf(keyMem[p]),
                        ![p].signature = Sign(keyMem[p], cr[p].payload_bytes)]
    /\ signLog' = Append(signLog, [draw |-> cr[p].draw,
                                   msg |-> Sign(keyMem[p], cr[p].payload_bytes).msg])
    /\ pc' = [pc EXCEPT ![p] = "create_ret"]
    /\ UNCHANGED <<hw, now, LAST_ATTESTATION_MS, COUNTER, run, op, chk, rec_now,
                   seedBuf, keyMem, ret, trig, emitted, okLog, createLog, rngLog,
                   calls>>

\* Ok(Self {..}): signing_key goes out of scope and is dropped
CreateReturn(p) ==
    /\ pc[p] = "create_ret"
    /\ keyMem' = [keyMem EXCEPT ![p] = DropKey(keyMem[p])]
    /\ LET att == AssembleAttestation(cr[p])
       IN  /\ ret' = [ret EXCEPT ![p] = RetCreateOk(att)]
           /\ createLog' = [createLog EXCEPT ![cr[p].idx].status = "ok",
                                             ![cr[p].idx].att = att]
    /\ trig' = [trig EXCEPT ![p].create = "Ok"]
    /\ pc' = [pc EXCEPT ![p] = CreateOkNext(p)]
    /\ UNCHANGED <<hw, now, LAST_ATTESTATION_MS, COUNTER, run, op, chk, rec_now,
                   cr, seedBuf, emitted, okLog, rngLog, signLog, calls>>

(***************************************************************************)
(* main.rs: the event loop                                                 *)
(***************************************************************************)
\* if button.poll_pressed()? { match cooldown::gate() {..} }
\* The debounced button is the loop's input: pressed or not.
MainPoll(p) ==
    /\ pc[p] = "poll"
    /\ \E pressed \in BOOLEAN :
         IF pressed
         THEN /\ calls < run.budget
              /\ calls' = calls + 1
              /\ trig' = [trig EXCEPT ![p] = [NoTrig EXCEPT !.last0 = LAST_ATTESTATION_MS,
                                                            !.ctr0 = COUNTER]]
              /\ ret' = [ret EXCEPT ![p] = NoRet]
              /\ pc' = [pc EXCEPT ![p] = "check_now"]
         ELSE /\ pc' = [pc EXCEPT ![p] = "delay"]
              /\ UNCHANGED <<calls, trig, ret>>
    /\ UNCHANGED <<hw, now, LAST_ATTESTATION_MS, COUNTER, run, op, chk, rec_now,
                   cr, seedBuf, keyMem, emitted, okLog, createLog, rngLog, signLog>>

\* Ok(attestation) => output_attestation(&attestation)
MainOutput(p) ==
    /\ pc[p] = "output"
    /\ emitted' = Append(emitted, ret[p].att)
    /\ trig' = [trig EXCEPT ![p].outputs = @ + 1]
    /\ pc' = [pc EXCEPT ![p] = "wait_release"]
    /\ UNCHANGED <<hw, now, LAST_ATTESTATION_MS, COUNTER, run, op, chk, rec_now,
                   cr, seedBuf, keyMem, ret, okLog, createLog, rngLog, signLog,
                   calls>>

\* button.wait_release()?
MainWaitRelease(p) ==
    /\ pc[p] = "wait_release"
    /\ pc' = [pc EXCEPT ![p] = "delay"]
    /\ UNCHANGED <<hw, now, LAST_ATTESTATION_MS, COUNTER, run, op, chk, rec_now,
                   cr, seedBuf, keyMem, ret, trig, emitted, okLog, createLog,
                   rngLog, signLog, calls>>

\* FreeRtos::delay_ms(10), then the next iteration of the loop
MainDelay(p) ==
    /\ pc[p] = "delay"
    /\ pc' = [pc EXCEPT ![p] = "poll"]
    /\ UNCHANGED <<hw, now, LAST_ATTESTATION_MS, COUNTER, run, op, chk, rec_now,
                   cr, seedBuf, keyMem, ret, trig, emitted, okLog, createLog,
                   rngLog, signLog, calls>>

(***************************************************************************)
(* Callers of the public functions.                                        *)
(***************************************************************************)
StartCall(p, name, first) ==
    /\ pc[p] = "idle"
    /\ calls < run.budget
    /\ calls' = calls + 1
    /\ op' = [op EXCEPT ![p] = name]
    /\ pc' = [pc EXCEPT ![p] = first]
    /\ ret' = [ret EXCEPT ![p] = NoRet]

\* cooldown::check()
CallCheck(p) ==
    /\ StartCall(p, "check", "check_now")
    /\ UNCHANGED <<hw, now, LAST_ATTESTATION_MS, COUNTER, run, chk, rec_now, cr,
                   seedBuf, keyMem, trig, emitted, okLog, createLog, rngLog,
                   signLog>>

\* cooldown::record_attestation()
CallRecord(p) ==
    /\ StartCall(p, "record", "record_now")
    /\ UNCHANGED <<hw, now, LAST_ATTESTATION_MS, COUNTER, run, chk, rec_now, cr,
                   seedBuf, keyMem, trig, emitted, okLog, createLog, rngLog,
                   signLog>>

\* cooldown::gate()
CallGate(p) ==
    /\ StartCall(p, "gate", "check_now")
    /\ UNCHANGED <<hw, now, LAST_ATTESTATION_MS, COUNTER, run, chk, rec_now, cr,
                   seedBuf, keyMem, trig, emitted, okLog, createLog, rngLog,
                   signLog>>

\* Attestation::create(rng, event)
CallCreate(p) ==
    /\ StartCall(p, "create", "create_ts")
    /\ \E e \in Events : cr' = [cr EXCEPT ![p] = [NoCr EXCEPT !.event = e]]
    /\ UNCHANGED <<hw, now, LAST_ATTESTATION_MS, COUNTER, run, chk, rec_now,
                   seedBuf, keyMem, trig, emitted, okLog, createLog, rngLog,
                   signLog>>

(***************************************************************************)
(* Specifications.                                                         *)
(***************************************************************************)
Cooldown(p) ==
    CheckReadClock(p) \/ CheckLoad(p) \/ RecordReadClock(p) \/ RecordStore(p)
Create(p) ==
    \/ CreateTimestamp(p) \/ CreateCounter(p) \/ CreateEncode(p) \/ KeyNewFill(p)
    \/ KeyNewDerive(p) \/ CreateSign(p) \/ CreateReturn(p)

\* main.rs as it is: one thread in the event loop
Next ==
    \/ Tick
    \/ \E p \in run.callers :
         \/ MainPoll(p) \/ Cooldown(p) \/ Create(p)
         \/ MainOutput(p) \/ MainWaitRelease(p) \/ MainDelay(p)
Spec == Init /\ [][Next]_vars

\* one thread, any sequence of check(), record_attestation() and gate()
NextCooldown ==
    \/ Tick
    \/ \E p \in run.callers :
         CallCheck(p) \/ CallRecord(p) \/ CallGate(p) \/ Cooldown(p)
SpecCooldown == InitCooldown /\ [][NextCooldown]_vars

\* one thread, create() after create()
NextCreate ==
    \/ Tick
    \/ \E p \in run.callers : CallCreate(p) \/ Create(p)
SpecCreate == InitCreate /\ [][NextCreate]_vars
SpecWrap == InitWrap /\ [][NextCreate]_vars

\* several threads calling check(), record_attestation() and gate()
NextConc ==
    \/ Tick
    \/ \E p \in run.callers :
         CallCheck(p) \/ CallRecord(p) \/ CallGate(p) \/ Cooldown(p)
SpecConc == InitConc /\ [][NextConc]_vars

(***************************************************************************)
(* main.rs: initialization, before the event loop                          *)
(***************************************************************************)
\* Event loop entered from boot: bounds of that run.
BootClock == 1000
MaxBootTriggers == 1

\* Mutant of RngFailedNext: the failed self-check is ignored.
RngFailedNextIgnored(p) == "boot_button"

\* HardwareRng::new()? in main: the ? returns the error from main
RngFailedNext(p) == "exited"

\* let peripherals = Peripherals::take()?
BootPeripherals(p) ==
    /\ pc[p] = "boot"
    /\ \E taken \in BOOLEAN :
         pc' = [pc EXCEPT ![p] = IF taken THEN "boot_rng" ELSE "exited"]
    /\ UNCHANGED <<coreData, boot, pin, button, bhist, hex>>

\* let rng = HardwareRng::new()?: esp_fill_random(test), then the sanity check
BootRngNew(p) ==
    /\ pc[p] = "boot_rng"
    /\ \E test \in Samples :
         /\ boot' = [test |-> test,
                     rng |-> IF RngSanityOk(test) THEN "ok" ELSE "err"]
         /\ pc' = [pc EXCEPT ![p] = IF RngSanityOk(test) THEN "boot_button"
                                    ELSE RngFailedNext(p)]
    /\ UNCHANGED <<coreData, pin, button, bhist, hex>>

\* let mut button = Button::new(PinDriver::input(button_pin)?)?
BootButtonNew(p) ==
    /\ pc[p] = "boot_button"
    /\ \E made \in BOOLEAN :
         pc' = [pc EXCEPT ![p] = IF made THEN "poll" ELSE "exited"]
    /\ button' = NewButton
    /\ UNCHANGED <<coreData, boot, pin, bhist, hex>>

\* main() from its first line
InitBoot == InitWith({1}, BootClock, MaxBootTriggers, "boot", "main")
NextBoot ==
    \/ Tick
    \/ \E p \in run.callers :
         \/ BootPeripherals(p) \/ BootRngNew(p) \/ BootButtonNew(p)
         \/ MainPoll(p) \/ Cooldown(p) \/ Create(p)
         \/ MainOutput(p) \/ MainWaitRelease(p) \/ MainDelay(p)
SpecBoot == InitBoot /\ [][NextBoot]_vars

(***************************************************************************)
(* attestation.rs: hex_encode                                              *)
(***************************************************************************)
\* Inputs of hex_encode in the model: up to MaxHexLen bytes out of HexBytes.
MaxHexLen == 4
HexBytes == {0, 10, 16, 173, 190, 222, 239, 255}
HexInputs == UNION {[1..n -> HexBytes] : n \in 0..MaxHexLen}

\* const HEX_CHARS: &[u8; 16] = b"0123456789abcdef" (indexed from 0 in the code)
HEX_CHARS == <<"0", "1", "2", "3", "4", "5", "6", "7", "8", "9",
               "a", "b", "c", "d", "e", "f">>

\* Mutant of HexPair: the low nibble is pushed first.
HexPairLowFirst(b) == <<HEX_CHARS[(b % 16) + 1], HEX_CHARS[(b \div 16) + 1]>>

\* s.push(HEX_CHARS[(b >> 4) as usize] as char);
\* s.push(HEX_CHARS[(b & 0x0f) as usize] as char)
HexPair(b) == <<HEX_CHARS[(b \div 16) + 1], HEX_CHARS[(b % 16) + 1]>>

\* for &b in bytes { .. }: one iteration
HexLoop ==
    /\ ~hex.done
    /\ hex.i < Len(hex.bytes)
    /\ hex' = [hex EXCEPT !.s = hex.s \o HexPair(hex.bytes[hex.i + 1]),
                          !.i = hex.i + 1]
    /\ UNCHANGED <<coreData, pc, boot, pin, button, bhist>>

\* the loop is over: s is returned
HexReturn ==
    /\ ~hex.done
    /\ hex.i = Len(hex.bytes)
    /\ hex' = [hex EXCEPT !.done = TRUE]
    /\ UNCHANGED <<coreData, pc, boot, pin, button, bhist>>

\* hex_encode(bytes) is entered: let mut s = String::with_capacity(bytes.len() * 2)
InitHex ==
    /\ InitCore({}, 0, 0, "off", "none")
    /\ \E bytes \in HexInputs :
         hex = [bytes |-> bytes, s |-> <<>>, i |-> 0, done |-> FALSE]
NextHex == HexLoop \/ HexReturn
SpecHex == InitHex /\ [][NextHex]_vars

(***************************************************************************)
(* button.rs, and main.rs's event loop around it                           *)
(***************************************************************************)
\* Bounds of the runs with the button: the clock, the number of times the raw
\* level goes low, and the scaled-down wrap of the u32 millis().
ButtonClock == 1200
MaxPresses == 2
MillisModulus == 1100
\* The time the initialization has taken when the loop is entered.
LoopEntryTime == 900

\* const DEBOUNCE_MS: u32 = 50
DEBOUNCE_MS == 50
\* FreeRtos::delay_ms(10) in main's loop and in wait_release's loop
POLL_DELAY_MS == 10

\* millis(): (esp_timer_get_time() / 1000) as u32
Millis(t) == t % MillisModulus
\* u32::wrapping_sub
WrappingSub(a, b) == (a - b) % MillisModulus

\* poll_pressed(): if current_raw != self.last_state {
\*                     if now.wrapping_sub(self.last_change_ms) >= DEBOUNCE_MS {
PollRegisters(current_raw, last_state, elapsed) ==
    current_raw # last_state /\ elapsed >= DEBOUNCE_MS

\* Mutant of StillPressed: wait_release() does not wait for the raw release.
StillPressedNever(raw) == FALSE

\* wait_release(): while self.pin.is_low()
StillPressed(raw) == raw

\* The physical button: the raw level of the pin changes at any time.
PinChange ==
    /\ pin \/ bhist.press < MaxPresses
    /\ pin' = ~pin
    /\ bhist' = IF pin THEN [bhist EXCEPT !.low_since = 0]
                ELSE [bhist EXCEPT !.press = @ + 1, !.low_since = now]
    /\ UNCHANGED <<coreData, pc, boot, button, hex>>

\* if button.poll_pressed()? { match cooldown::gate() .. } else the delay
ButtonPoll(p) ==
    /\ pc[p] = "poll"
    /\ LET t == Millis(now)
           current_raw == pin
           elapsed == WrappingSub(t, button.last_change_ms)
           registers == PollRegisters(current_raw, button.last_state, elapsed)
       IN  /\ button' = IF registers
                        THEN [last_state |-> current_raw, last_change_ms |-> t]
                        ELSE button
           /\ IF registers /\ current_raw
              THEN /\ bhist' = [bhist EXCEPT !.trues = Append(@,
                                   [press |-> bhist.press,
                                    stable |-> now - bhist.low_since >= DEBOUNCE_MS,
                                    prev |-> button.last_state,
                                    resets |-> bhist.resets])]
                   /\ calls' = calls + 1
                   /\ trig' = [trig EXCEPT ![p] =
                                  [NoTrig EXCEPT !.last0 = LAST_ATTESTATION_MS,
                                                 !.ctr0 = COUNTER]]
                   /\ ret' = [ret EXCEPT ![p] = NoRet]
                   /\ pc' = [pc EXCEPT ![p] = "check_now"]
              ELSE /\ bhist' = IF registers
                               THEN [bhist EXCEPT !.resets = @ + 1] ELSE bhist
                   /\ pc' = [pc EXCEPT ![p] = "delay"]
                   /\ UNCHANGED <<calls, trig, ret>>
    /\ UNCHANGED <<attData, now, boot, pin, hex>>

\* wait_release(): while self.pin.is_low() { FreeRtos::delay_ms(10) }
WaitReleaseSample(p) ==
    /\ pc[p] = "wait_release"
    /\ IF StillPressed(pin)
       THEN /\ now + POLL_DELAY_MS <= run.horizon
            /\ now' = now + POLL_DELAY_MS
            /\ pc' = pc
       ELSE /\ pc' = [pc EXCEPT ![p] = "wait_debounce"]
            /\ now' = now
    /\ UNCHANGED <<attData, calls, trig, ret, hw>>

\* wait_release(): FreeRtos::delay_ms(DEBOUNCE_MS); self.last_state = false;
\* self.last_change_ms = millis(); Ok(())
WaitReleaseDebounce(p) ==
    /\ pc[p] = "wait_debounce"
    /\ now + DEBOUNCE_MS <= run.horizon
    /\ now' = now + DEBOUNCE_MS
    /\ button' = [last_state |-> FALSE, last_change_ms |-> Millis(now')]
    /\ bhist' = [bhist EXCEPT !.resets = @ + 1]
    /\ pc' = [pc EXCEPT ![p] = "delay"]
    /\ UNCHANGED <<attData, calls, trig, ret, boot, pin, hex>>

\* FreeRtos::delay_ms(10) at the end of the loop's body
LoopDelay(p) ==
    /\ pc[p] = "delay"
    /\ now + POLL_DELAY_MS <= run.horizon
    /\ now' = now + POLL_DELAY_MS
    /\ pc' = [pc EXCEPT ![p] = "poll"]
    /\ UNCHANGED <<attData, calls, trig, ret, hw>>

\* main.rs's event loop with the button as it is
InitButton ==
    /\ InitAt(LoopEntryTime, {1}, ButtonClock, MaxPresses, "poll", "main")
    /\ hex = NoHex
NextButton ==
    \/ PinChange
    \/ \E p \in run.callers :
         \/ ButtonPoll(p) \/ Cooldown(p) \/ Create(p) \/ MainOutput(p)
         \/ WaitReleaseSample(p) \/ WaitReleaseDebounce(p) \/ LoopDelay(p)
SpecButton == InitButton /\ [][NextButton]_vars

(***************************************************************************)
(* Properties.                                                             *)
(***************************************************************************)
Abs(x) == IF x >= 0 THEN x ELSE -x
OkCreates == {i \in 1..Len(createLog) : createLog[i].status = "ok"}
InCreate(p) ==
    pc[p] \in {"create_ts", "create_ctr", "create_encode", "create_key",
               "create_derive", "create_sign", "create_ret"}

C2_GateAtomic ==
    \A i, j \in 1..Len(okLog) :
        i # j => Abs(okLog[i].chk - okLog[j].chk) >= COOLDOWN_MS

\* C3: whenever a caller is outside create() (before any call, after an Ok
\* return, after an Err return) its seed buffer is all zero and its signing
\* key memory holds no live key.
C3_ZeroizedOnEveryExit ==
    \A p \in run.callers :
        ~InCreate(p) => seedBuf[p] = ZeroSeed /\ keyMem[p] = NoKey

\* create() has returned Ok after drawing a non-zero seed, and has returned Err.
C3_Witness ==
    /\ \E i \in OkCreates : rngLog[createLog[i].draw] # ZeroSeed
    /\ \E i \in 1..Len(createLog) : createLog[i].status = "err"
    /\ \A p \in run.callers : ~InCreate(p)

\* C4: the counter values obtained by the successive create() calls of one
\* caller are strictly increasing from 0 (hence never repeat), for every number
\* of calls.
C4_CounterStrictlyIncreasing ==
    /\ \A i, j \in 1..Len(createLog) :
         (i < j /\ createLog[i].counter # -1 /\ createLog[j].counter # -1)
             => createLog[i].counter < createLog[j].counter
    /\ Len(createLog) >= 1 => createLog[1].counter \in {-1, 0}

\* The counter has gone round: a fourth value was drawn after 0, 1, 2.
C4_Wrapped ==
    \E i, j \in 1..Len(createLog) :
        i < j /\ createLog[j].counter # -1
              /\ createLog[i].counter = createLog[j].counter

\* C5: every create() that makes a key makes it from an entropy draw of its own
\* (no draw serves two calls); a call that returns Ok has signed exactly one
\* message with that key, the encoding of its own payload; while a call has not
\* yet derived its key no key is live; and if the entropy source never repeated
\* a seed, the public keys returned are pairwise distinct.
C5_EphemeralKeySingleUse ==
    /\ \A i, j \in 1..Len(createLog) :
         (i # j /\ createLog[i].draw # 0) => createLog[i].draw # createLog[j].draw
    /\ \A i \in OkCreates :
         /\ createLog[i].draw \in 1..Len(rngLog)
         /\ Cardinality({k \in 1..Len(signLog) :
                            signLog[k].draw = createLog[i].draw}) = 1
         /\ \A k \in 1..Len(signLog) :
              signLog[k].draw = createLog[i].draw =>
                  signLog[k].msg = Encode(createLog[i].payload)
    /\ \A p \in run.callers :
         pc[p] \in {"idle", "create_ts", "create_ctr", "create_encode",
                    "create_key", "create_derive"} => keyMem[p] = NoKey
    /\ (\A a, b \in 1..Len(rngLog) : a # b => rngLog[a] # rngLog[b])
         => \A i, j \in OkCreates :
              i # j => createLog[i].att.public_key # createLog[j].att.public_key

\* Two calls returned Ok with keys from two different seeds.
C5_Witness ==
    /\ Cardinality(OkCreates) >= 2
    /\ \A a, b \in 1..Len(rngLog) : a # b => rngLog[a] # rngLog[b]
    /\ Len(signLog) = 2

\* C6: a create(e) that returned Ok returned an attestation whose event is e
\* and whose event and timestamp are those of the payload it signed; its public
\* key is the verifying key of the key derived from the call's seed; and its
\* signature verifies under that public key against the encoding of
\* (version 1, e, timestamp_ms, the counter drawn in that call).
C6_SignatureCoversPayload ==
    \A i \in OkCreates :
        LET c == createLog[i]
        IN  /\ c.att.event = c.event
            /\ c.att.event = c.payload.event
            /\ c.att.timestamp_ms = c.payload.timestamp_ms
            /\ c.payload.version = PAYLOAD_VERSION
            /\ c.payload.counter = c.counter
            /\ c.att.public_key = VerifyingKeyOf(FromBytes(rngLog[c.draw]))
            /\ Verify(c.att.public_key,
                      Encode(BuildPayload(c.event, c.att.timestamp_ms, c.counter)),
                      c.att.signature)

\* An Unknown event attested after the clock moved, with a counter past 0, and
\* the clock moved again before create() returned.
C6_Witness ==
    \E i \in OkCreates :
        /\ createLog[i].event = Unknown
        /\ createLog[i].att.timestamp_ms = 500
        /\ createLog[i].counter = 1
        /\ now = 1000

\* C7: as long as no attestation succeeded since boot, gate() does not return
\* Err: the first trigger is never rejected by the cooldown.
C7_FirstTriggerNotRejected ==
    okLog = <<>> => \A p \in run.callers : ~(ret[p].fn = "gate" /\ ~ret[p].ok)

\* C8: a check() that read the clock value n and the last success L returned
\* Ready iff saturating_sub(n, L) >= COOLDOWN_MS and otherwise Wait with
\* remaining_ms = COOLDOWN_MS - saturating_sub(n, L), which lies in
\* 1..COOLDOWN_MS and is COOLDOWN_MS when n <= L; a gate() returns Err with
\* exactly the remaining_ms of its check, and Ok only when its check was Ready.
C8_CheckResult ==
    \A p \in run.callers :
        LET n == chk[p].now
            L == chk[p].last
            r == ret[p]
            sat == IF n <= L THEN 0 ELSE n - L
        IN  /\ r.fn = "check" =>
                 /\ r.kind = "Ready" <=> sat >= COOLDOWN_MS
                 /\ r.kind # "Ready" =>
                      /\ r.kind = "Wait"
                      /\ r.remaining_ms = COOLDOWN_MS - sat
                      /\ r.remaining_ms \in 1..COOLDOWN_MS
                      /\ n <= L => r.remaining_ms = COOLDOWN_MS
            /\ (r.fn = "gate" /\ ~r.ok) =>
                 /\ sat < COOLDOWN_MS
                 /\ r.remaining_ms = COOLDOWN_MS - sat
                 /\ r.remaining_ms \in 1..COOLDOWN_MS
                 /\ n <= L => r.remaining_ms = COOLDOWN_MS
            /\ (r.fn = "gate" /\ r.ok) => sat >= COOLDOWN_MS

\* A gate() whose clock reading is older than the success it then loaded
\* (another caller recorded in between) returned Err(COOLDOWN_MS).
C8_Witness ==
    \E p \in run.callers :
        /\ ret[p].fn = "gate" /\ ~ret[p].ok
        /\ chk[p].now < chk[p].last
        /\ ret[p].remaining_ms = COOLDOWN_MS

\* C9: a trigger that emitted no attestation (rejected by the gate, or its
\* create() failed) leaves LAST_ATTESTATION_MS as it was when the trigger began.
C9_FailedTriggerKeepsTimestamp ==
    \A p \in run.callers :
        (pc[p] = "wait_release" /\ trig[p].outputs = 0)
            => LAST_ATTESTATION_MS = trig[p].last0

\* C10: every attestation emitted is the value of a create() that returned Ok,
\* no more are emitted than were returned, and a trigger whose create() failed
\* emits nothing and is back in the event loop.
C10_NoOutputOnFailure ==
    /\ \A k \in 1..Len(emitted) :
         \E i \in OkCreates : createLog[i].att = emitted[k]
    /\ Len(emitted) <= Cardinality(OkCreates)
    /\ \A p \in run.callers :
         trig[p].create = "Err" =>
            /\ trig[p].outputs = 0
            /\ pc[p] \in {"wait_release", "delay", "poll"}

\* A create() failed, and a later trigger was served and emitted its attestation.
C10_Witness ==
    /\ Len(createLog) >= 2
    /\ createLog[1].status = "err"
    /\ createLog[2].status = "ok"
    /\ Len(emitted) = 1
    /\ \A p \in run.callers : pc[p] = "poll"

\* C11: a create() that drew the all-zero sample as its key seed does not
\* return an attestation: it returns an error.
C11_ZeroSeedIsAnError ==
    \A i \in 1..Len(createLog) :
        (createLog[i].draw # 0 /\ rngLog[createLog[i].draw] = ZeroSeed)
            => createLog[i].status # "ok"

\* C12: HardwareRng::new() fails iff its 4-byte test sample is all zero; and
\* once it has failed main has returned: no gate() call, no counter increment,
\* no create() and no attestation ever happens.
C12_RngSelfCheck ==
    /\ boot.rng # "none" => (boot.rng = "err" <=> boot.test = TestZero)
    /\ boot.rng = "err" =>
         /\ \A p \in run.callers : pc[p] = "exited"
         /\ calls = 0 /\ COUNTER = 0 /\ LAST_ATTESTATION_MS = 0
         /\ okLog = <<>> /\ createLog = <<>> /\ emitted = <<>>
         /\ \A p \in run.callers : ret[p] = NoRet

\* The self-check failed on the all-zero sample and time went on.
C12_Witness == boot.rng = "err" /\ boot.test = TestZero /\ now = BootClock

\* A sample with a single non-zero byte (not the first) passed the self-check
\* and the loop produced an attestation.
C12_WitnessPass ==
    boot.rng = "ok" /\ boot.test = <<0, 0, 0, 1>> /\ Len(emitted) = 1

Counted == {i \in 1..Len(createLog) : createLog[i].counter # -1}

\* C13: the counter is the number of create() calls that have passed their
\* increment, modulo its width: one increment per call, kept when the call
\* fails; the increment comes before the entropy draw and the signature; every
\* create() that has returned has made it; and a trigger rejected by the gate
\* starts no create() and leaves the counter as it was.
C13_CounterCountsAttempts ==
    /\ COUNTER = Cardinality(Counted) % CounterModulus
    /\ \A i \in 1..Len(createLog) :
         /\ createLog[i].status # "run" => i \in Counted
         /\ createLog[i].draw # 0 => i \in Counted
         /\ i \in Counted /\ i > 1 =>
              /\ i - 1 \in Counted
              /\ createLog[i].counter =
                   (createLog[i - 1].counter + 1) % CounterModulus
    /\ \A p \in run.callers :
         trig[p].gate = "Err" =>
            /\ trig[p].create = "none"
            /\ pc[p] = "wait_release" => COUNTER = trig[p].ctr0

\* A failed create() kept its counter value, the next one got the next value,
\* the third made the counter come round, and a trigger was rejected.
C13_Witness ==
    /\ Len(createLog) = 3
    /\ createLog[1].status = "err" /\ createLog[1].counter = 0
    /\ createLog[2].status = "ok" /\ createLog[2].counter = 1
    /\ createLog[3].status = "ok"
    /\ \E p \in run.callers : pc[p] = "wait_release" /\ trig[p].gate = "Err"

\* C14 as stated: a trigger that has reached wait_release either was approved,
\* signed and output once, or was rejected by the gate and did nothing else.
C14_TwoPathsOnly ==
    \A p \in run.callers :
        pc[p] = "wait_release" =>
            \/ trig[p].gate = "Ok" /\ trig[p].create = "Ok" /\ trig[p].outputs = 1
            \/ trig[p].gate = "Err" /\ trig[p].create = "none" /\ trig[p].outputs = 0

\* C14, amended: within one trigger the steps come in the order gate(),
\* create(), output; create() runs only after gate() returned Ok, the output
\* only after create() returned Ok, at most once; and a finished trigger took
\* one of three paths: approved, signed and output; approved and create()
\* failed, nothing output; rejected by the gate, nothing else done.
C14_TriggerOrdering ==
    /\ \A p \in run.callers :
         LET t == trig[p]
         IN  /\ pc[p] \in {"check_now", "check_load", "record_now", "record_store"}
                  => t.gate = "none" /\ t.create = "none" /\ t.outputs = 0
             /\ InCreate(p) => t.gate = "Ok" /\ t.create = "none" /\ t.outputs = 0
             /\ pc[p] = "output" => t.gate = "Ok" /\ t.create = "Ok" /\ t.outputs = 0
             /\ pc[p] = "wait_release" =>
                  \/ t.gate = "Ok" /\ t.create = "Ok" /\ t.outputs = 1
                  \/ t.gate = "Ok" /\ t.create = "Err" /\ t.outputs = 0
                  \/ t.gate = "Err" /\ t.create = "none" /\ t.outputs = 0
             /\ t.outputs <= 1
    /\ Len(emitted) <= calls
    /\ Len(createLog) <= Len(okLog)

\* One trigger was output, a later one was approved and its create() failed.
C14_Witness ==
    /\ Len(emitted) = 1
    /\ \E p \in run.callers :
         /\ pc[p] = "wait_release"
         /\ trig[p].gate = "Ok" /\ trig[p].create = "Err" /\ trig[p].outputs = 0

\* The value of a hex digit: its position in 0123456789abcdef.
HexDigits == <<"0", "1", "2", "3", "4", "5", "6", "7", "8", "9",
               "a", "b", "c", "d", "e", "f">>
DigitValue(c) == CHOOSE v \in 0..15 : HexDigits[v + 1] = c

\* C15: hex_encode of n bytes returns 2n characters out of 0-9a-f; characters
\* 2i and 2i+1 (from 0) are the high and the low nibble of byte i in lowercase
\* hex, so the bytes can be read back from the string (the mapping is
\* injective); [0xde,0xad,0xbe,0xef] gives "deadbeef", [0x00,0xff] gives
\* "00ff", the empty input gives the empty string.
C15_HexEncode ==
    hex.done =>
        /\ Len(hex.s) = 2 * Len(hex.bytes)
        /\ \A k \in 1..Len(hex.s) : \E v \in 0..15 : hex.s[k] = HexDigits[v + 1]
        /\ \A i \in 1..Len(hex.bytes) :
             /\ hex.s[2 * i - 1] = HexDigits[(hex.bytes[i] \div 16) + 1]
             /\ hex.s[2 * i] = HexDigits[(hex.bytes[i] % 16) + 1]
             /\ hex.bytes[i] = 16 * DigitValue(hex.s[2 * i - 1]) + DigitValue(hex.s[2 * i])
        /\ hex.bytes = <<222, 173, 190, 239>>
             => hex.s = <<"d", "e", "a", "d", "b", "e", "e", "f">>
        /\ hex.bytes = <<0, 255>> => hex.s = <<"0", "0", "f", "f">>
        /\ hex.bytes = <<>> => hex.s = <<>>

\* hex_encode(&[0xde, 0xad, 0xbe, 0xef]) has returned "deadbeef".
C15_Witness ==
    /\ hex.done
    /\ hex.bytes = <<222, 173, 190, 239>>
    /\ hex.s = <<"d", "e", "a", "d", "b", "e", "e", "f">>

\* Where the fields of an encoded payload lie: the number of bytes, and the
\* offsets of timestamp_ms and of counter.
EncodedLayout(pl) ==
    [len          |-> Len(Encode(pl)),
     timestamp_at |-> 1 + Len(EncodeEvent(pl.event)),
     counter_at   |-> 1 + Len(EncodeEvent(pl.event)) + Len(Varint(pl.timestamp_ms))]

\* C16: the payload encoding has fixed-width integers: for payloads of the
\* same event, the number of bytes and the byte offset of each field are the
\* same whatever timestamp_ms and counter are.
C16_FixedWidthEncoding ==
    \A i, j \in 1..Len(createLog) :
        /\ createLog[i].payload # NoPayload
        /\ createLog[j].payload # NoPayload
        /\ createLog[i].payload.event = createLog[j].payload.event
        => EncodedLayout(createLog[i].payload) = EncodedLayout(createLog[j].payload)

\* C17: check() never modifies LAST_ATTESTATION_MS, whatever it returns;
\* record_attestation() sets it to the clock value it read, whatever the
\* previous value and the cooldown status; gate() modifies it only on the
\* path that returns Ok(()): a gate() that returns Err(remaining) leaves it
\* as it was.
C17_FrameEffects ==
    [][\A p \in run.callers :
         /\ (op[p] = "check" /\ pc[p] # "idle")
              => LAST_ATTESTATION_MS' = LAST_ATTESTATION_MS
         /\ (op[p] = "record" /\ pc[p] = "record_store" /\ pc'[p] = "idle")
              => /\ LAST_ATTESTATION_MS' = rec_now[p]
                 /\ rec_now[p] <= now
                 /\ ret'[p] = RetRecord
         /\ (op[p] = "gate" /\ pc[p] # "idle"
               /\ LAST_ATTESTATION_MS' # LAST_ATTESTATION_MS)
              => ret'[p] = RetGateOk
         /\ (op[p] = "gate" /\ pc[p] # "idle" /\ ret'[p].fn = "gate" /\ ~ret'[p].ok)
              => LAST_ATTESTATION_MS' = LAST_ATTESTATION_MS
         /\ LAST_ATTESTATION_MS' # LAST_ATTESTATION_MS
              => pc[p] = "record_store" /\ op[p] \in {"record", "gate"}
      ]_vars

\* check() has found the cooldown active (500 stored, 1000 on the clock), and
\* the record_attestation() after it has stored 1000 all the same.
C17_Witness ==
    \E p \in run.callers :
        /\ ret[p] = RetRecord
        /\ chk[p].res.kind = "Wait"
        /\ chk[p].now = 1000
        /\ chk[p].last = 500
        /\ LAST_ATTESTATION_MS = 1000

\* C18: poll_pressed() returns true once per press: only when the debounced
\* state goes from released to pressed, so that between two true returns the
\* debounced state was set back to released, and a button held continuously
\* low yields at most one true; with main's wait_release() after each press,
\* one physical press (one stretch of the raw level being low) produces at
\* most one gate() call and at most one attestation.
C18_OncePerPress ==
    LET trues == bhist.trues
    IN  /\ \A k \in 1..Len(trues) :
             /\ trues[k].press \in 1..bhist.press
             /\ ~trues[k].prev
             /\ k > 1 => trues[k].resets > trues[k - 1].resets
        /\ \A i, j \in 1..Len(trues) : i < j => trues[i].press < trues[j].press
        /\ calls = Len(trues)
        /\ calls <= bhist.press
        /\ Len(okLog) <= calls
        /\ Len(createLog) <= Len(okLog)
        /\ Len(emitted) <= Len(createLog)
        /\ \A p \in run.callers : trig[p].outputs <= 1

\* The button has been low for 100 ms and more without a break, the one press
\* has been attested, and wait_release() is still waiting for the raw release.
C18_Witness ==
    /\ pin
    /\ bhist.press = 1
    /\ now - bhist.low_since >= 2 * DEBOUNCE_MS
    /\ Len(bhist.trues) = 1
    /\ Len(emitted) = 1
    /\ \E p \in run.callers : pc[p] = "wait_release"

\* A second press after the first one was released: poll_pressed() has
\* returned true again, and the cooldown has rejected it.
C18_WitnessSecondPress ==
    /\ bhist.press = 2
    /\ Len(bhist.trues) = 2
    /\ Len(emitted) = 1
    /\ \E p \in run.callers : trig[p].gate = "Err"

\* C19: poll_pressed() reports a press only after a stable period: only when
\* the raw level has been low without a break for at least DEBOUNCE_MS; a low
\* level first seen on one poll is never reported as a press.
C19_DebounceStable ==
    \A k \in 1..Len(bhist.trues) : bhist.trues[k].stable

\* C20: attestation timestamps respect the cooldown: of two attestations
\* emitted one after the other by the event loop, the later one's
\* timestamp_ms is at least COOLDOWN_MS greater than the earlier one's.
C20_TimestampsCooldownApart ==
    \A i \in 2..Len(emitted) :
        emitted[i].timestamp_ms - emitted[i - 1].timestamp_ms >= COOLDOWN_MS

=============================================================================
